---------------------------- MODULE Spec2Model ----------------------------
(***************************************************************************)
(* A model of glidertools/utils.py: the dive-phase classifier, the dive    *)
(* numberer, the per-dive depth masks, the multi-rate merge and the        *)
(* great-circle distance.  Every function of utils.py is a pure function   *)
(* of its arguments, so each specification below draws the arguments of    *)
(* one function from bounded sets in its initial states and has one action *)
(* per public function, which applies it.                                  *)
(*                                                                         *)
(* Number representations used throughout                                  *)
(*   - a float that may be not-a-number is a set of integers: {} is NaN    *)
(*     and {x} is the number x;                                            *)
(*   - a quotient is kept exact as a record [num, den];                    *)
(*   - timestamps are whole seconds, depths are quotients in metres.       *)
(***************************************************************************)
EXTENDS Integers, Sequences, FiniteSets

VARIABLES
    pc,         \* "start" until a function has been applied, then its name
    phase,      \* numberer: phase labels (input) / classifier: its output
    dive,       \* numberer: the dive index, one quotient per sample
    time,       \* classifier: timestamps of the track (seconds)
    depth,      \* classifier: depths of the track (metres, as quotients)
    velocity,   \* classifier: vertical velocity computed from the track
    df1,        \* merge: first table
    df2,        \* merge: second table
    interp_lim, \* merge: fill limit
    merged,     \* merge: what the call returned or raised
    steps,      \* merge: the table operations performed, in order
    lon,        \* distance: longitudes (degrees)
    lat,        \* distance: latitudes (degrees)
    ref_idx,    \* distance: {} for None, {i} for the Python index i
    d,          \* distance: what the call returned or raised
    ds,         \* mask: the dataset, a sequence of rows [dives, depth]
    depths,     \* mask: scalar threshold or per-dive lookup
    above,      \* mask: TRUE for mask_above_depth, FALSE for mask_below_depth
    mask        \* mask: what the call returned

numberVars == <<phase, dive>>
trackVars  == <<time, depth, velocity>>
mergeVars  == <<df1, df2, interp_lim, merged, steps>>
distVars   == <<lon, lat, ref_idx, d>>
maskVars   == <<ds, depths, above, mask>>
vars == <<pc, numberVars, trackVars, mergeVars, distVars, maskVars>>

-----------------------------------------------------------------------------
(* Bounds of the model *)

MaxPhaseLen == 4    \* longest phase-label sequence given to the numberer
MaxTrackLen == 3    \* longest track given to the classifier
MaxTime     == 5    \* merge: timestamps are drawn from 1..MaxTime
MaxLim      == 2    \* merge: interp_lim is drawn from 1..MaxLim
MaxPts      == 3    \* distance: longest lon and lat sequences
MaxRows     == 3    \* mask: most rows of the dataset

-----------------------------------------------------------------------------
(* Floats and quotients *)

NaN == {}
Num(x) == {x}
IsNaN(f) == f = {}
Val(f) == CHOOSE x \in f : TRUE

Quot(n, m) == [num |-> n, den |-> m]
\* q1 <= q2 for quotients with positive denominators
QLeq(q1, q2) == q1.num * q2.den <= q2.num * q1.den
\* the quotient is a whole number (x.0)
IsDotZero(q) == q.num % q.den = 0
\* the quotient is a whole number plus one half (x.5)
IsDotFive(q) == q.num % q.den # 0 /\ (2 * q.num) % q.den = 0

SeqsUpTo(S, n) == UNION {[1..k -> S] : k \in 0..n}

-----------------------------------------------------------------------------
(* pandas.Series primitives used by dive_phase_to_number *)

\* (s == k).astype(int)
EqAsInt(s, k) == [i \in 1..Len(s) |-> IF s[i] = k THEN 1 ELSE 0]

\* Series.diff(): the first element has no predecessor and is NaN
Diff(s) == [i \in 1..Len(s) |-> IF i = 1 THEN NaN ELSE Num(s[i] - s[i-1])]

\* (f == 1).astype(int) on a float series: NaN == 1 is False
FloatEqOneAsInt(f) == [i \in 1..Len(f) |-> IF f[i] = Num(1) THEN 1 ELSE 0]

RECURSIVE SumTo(_, _)
SumTo(s, i) == IF i = 0 THEN 0 ELSE SumTo(s, i - 1) + s[i]

\* Series.cumsum()
CumSum(s) == [i \in 1..Len(s) |-> SumTo(s, i)]

\* a plausible slip: counting every change of the indicator (diff != 0)
\* instead of its rising edges (diff == 1)
RunStartsCountingFalls(p, label) ==
    LET f == Diff(EqAsInt(p, label))
    IN  [i \in 1..Len(p) |-> IF ~IsNaN(f[i]) /\ f[i] # Num(0) THEN 1 ELSE 0]

\* ((phase == label).astype(int).diff() == 1).astype(int)
RunStarts(p, label) == FloatEqOneAsInt(Diff(EqAsInt(p, label)))

\* a plausible slip: the run-start indicators averaged without cumsum()
DivePhaseToNumberNoCumSum(p) ==
    LET u == RunStarts(p, 4)
        dn == RunStarts(p, 1)
    IN  [i \in 1..Len(p) |-> Quot(u[i] + dn[i], 2)]

\* dive_phase_to_number(phase)
DivePhaseToNumber(p) ==
    LET u_dive == CumSum(RunStarts(p, 4))
        d_dive == CumSum(RunStarts(p, 1))
    IN  [i \in 1..Len(p) |-> Quot(u_dive[i] + d_dive[i], 2)]

-----------------------------------------------------------------------------
(* calc_glider_vert_velocity and calc_dive_phase *)

\* the values a quotient of two floats can take (IEEE-754 division)
Fin(n, m) == [kind |-> "fin", num |-> n, den |-> m]
PosInf == [kind |-> "inf", num |-> 1, den |-> 0]
NegInf == [kind |-> "inf", num |-> -1, den |-> 0]
NaNQ == [kind |-> "nan", num |-> 0, den |-> 0]

\* a / b for floats a and b: NaN propagates, x / 0 is +-inf and 0 / 0 is NaN;
\* a finite quotient is kept with a positive denominator
FloatDiv(a, b) ==
    IF IsNaN(a) \/ IsNaN(b) THEN NaNQ
    ELSE LET x == Val(a)
             y == Val(b)
         IN  IF y = 0
             THEN (IF x > 0 THEN PosInf ELSE IF x < 0 THEN NegInf ELSE NaNQ)
             ELSE IF y > 0 THEN Fin(x, y) ELSE Fin(-x, -y)

\* comparisons of a velocity with +0.5 and -0.5; every comparison with NaN
\* is False
GtHalf(v) ==
    \/ v = PosInf
    \/ v.kind = "fin" /\ 2 * v.num > v.den
LeHalf(v) ==
    \/ v = NegInf
    \/ v.kind = "fin" /\ 2 * v.num <= v.den
LtMinusHalf(v) ==
    \/ v = NegInf
    \/ v.kind = "fin" /\ 2 * v.num < -v.den
GeMinusHalf(v) ==
    \/ v = PosInf
    \/ v.kind = "fin" /\ 2 * v.num >= -v.den

RECURSIVE MinOf(_)
MinOf(S) ==
    LET x == CHOOSE y \in S : TRUE
    IN  IF S = {x} THEN x
        ELSE LET m == MinOf(S \ {x}) IN IF x < m THEN x ELSE m

\* t_s: seconds since the earliest timestamp, (t_ns - t_ns.min()) / 1e9
ElapsedSeconds(t) ==
    LET t0 == MinOf({t[i] : i \in 1..Len(t)})
    IN  [i \in 1..Len(t) |-> t[i] - t0]

\* p_cm: depth in centimetres, p_m * 100 (whole for depths of two decimals)
DepthCm(dep) == [i \in 1..Len(dep) |-> (dep[i].num * 100) \div dep[i].den]

\* calc_glider_vert_velocity(time, depth): p_cm.diff() / t_s.diff()
CalcGliderVertVelocity(t, dep) ==
    LET dp == Diff(DepthCm(dep))
        dt == Diff(ElapsedSeconds(t))
    IN  [i \in 1..Len(t) |-> FloatDiv(dp[i], dt[i])]

\* dive_depth_threshold, the default of calc_dive_phase and calc_dive_number
DiveDepthThreshold == 15

\* depth > dive_depth_threshold and depth <= dive_depth_threshold
Deeper(q, thr) == q.num > thr * q.den
NotDeeper(q, thr) == q.num <= thr * q.den

\* what numpy.ndarray(n) may hold: the buffer is allocated and not
\* initialised, so every element is whatever the memory held: NaN, zero or
\* any other float
GarbageFloats == {NaN, Num(0), Num(5)}

\* phase[m] = label: the elements selected by the boolean mask m are set
MaskAssign(buf, m, label) ==
    [i \in 1..Len(buf) |-> IF m[i] THEN Num(label) ELSE buf[i]]

\* a plausible slip: the surface rule applied before the velocity rules, so
\* that descent and ascent overwrite it
ClassifySurfaceFirst(v, dep, thr, buf) ==
    LET n == Len(v)
        p0 == MaskAssign(buf, [i \in 1..n |-> NotDeeper(dep[i], thr)], 0)
        p1 == MaskAssign(p0, [i \in 1..n |-> GtHalf(v[i])], 1)
        p2 == MaskAssign(p1, [i \in 1..n |-> LtMinusHalf(v[i])], 4)
        p3 == MaskAssign(p2, [i \in 1..n |-> Deeper(dep[i], thr)
                                  /\ GeMinusHalf(v[i]) /\ LeHalf(v[i])], 3)
        p5 == MaskAssign(p3, [i \in 1..n |-> IsNaN(p3[i])], 6)
    IN  [i \in 1..n |-> Val(p5[i])]

\* the body of calc_dive_phase after the velocity v is known: the rules are
\* assignments to the buffer in this order, a later one overwriting an
\* earlier one; buf is the content of the freshly allocated ndarray
Classify(v, dep, thr, buf) ==
    LET n == Len(v)
        p1 == MaskAssign(buf, [i \in 1..n |-> GtHalf(v[i])], 1)
        p2 == MaskAssign(p1, [i \in 1..n |-> LtMinusHalf(v[i])], 4)
        p3 == MaskAssign(p2, [i \in 1..n |-> Deeper(dep[i], thr)
                                  /\ GeMinusHalf(v[i]) /\ LeHalf(v[i])], 3)
        p4 == MaskAssign(p3, [i \in 1..n |-> NotDeeper(dep[i], thr)], 0)
        p5 == MaskAssign(p4, [i \in 1..n |-> IsNaN(p4[i])], 6)
    IN  [i \in 1..n |-> Val(p5[i])]

\* calc_dive_phase(time, depth, dive_depth_threshold): the set of results
\* the call can return, one for each content of the uninitialised buffer
CalcDivePhase(t, dep, thr) ==
    LET v == CalcGliderVertVelocity(t, dep)
    IN  {Classify(v, dep, thr, buf) : buf \in [1..Len(t) -> GarbageFloats]}

-----------------------------------------------------------------------------
(* merge_dimensions *)

\* A table (pandas.DataFrame) is a record: the type of its index, the index
\* (a sequence of distinct timestamps) and one column of floats, one per
\* row.  A dataset (xarray.Dataset) has none of these for merge_dimensions,
\* which refuses it before looking inside.  A cell is NaN or Num(q), q an
\* exact quotient.
DataFrame(ity, idx, col) ==
    [kind |-> "DataFrame", index_type |-> ity, index |-> idx, col |-> col]
Dataset ==
    [kind |-> "Dataset", index_type |-> "none", index |-> <<>>, col |-> <<>>]

Range(f) == {f[i] : i \in DOMAIN f}

RECURSIVE SortedSeq(_)
\* the elements of a finite set of integers in increasing order
SortedSeq(S) ==
    IF S = {} THEN <<>>
    ELSE LET m == MinOf(S) IN <<m>> \o SortedSeq(S \ {m})

\* the cell of table t at label ts, NaN when t has no such row
CellAt(t, ts) ==
    IF \E j \in 1..Len(t.index) : t.index[j] = ts
    THEN t.col[CHOOSE j \in 1..Len(t.index) : t.index[j] = ts]
    ELSE NaN

\* df1.join(df2, sort=True, how="outer", rsuffix="_drop"): one row for
\* every label of either table, sorted by label, the cells of a table
\* missing where it has no row
JoinOuter(a, b) ==
    LET idx == SortedSeq(Range(a.index) \cup Range(b.index))
    IN  [index |-> idx,
         a |-> [i \in 1..Len(idx) |-> CellAt(a, idx[i])],
         b |-> [i \in 1..Len(idx) |-> CellAt(b, idx[i])]]

\* the positions of the known cells of a column before and after position i
KnownBefore(col, i) == {j \in 1..(i - 1) : ~IsNaN(col[j])}
KnownAfter(col, i) == {j \in (i + 1)..Len(col) : ~IsNaN(col[j])}
MaxOf(S) == CHOOSE x \in S : \A y \in S : y <= x
MinPos(S) == CHOOSE x \in S : \A y \in S : x <= y

\* the point at k / g of the way from quotient p to quotient q
Lerp(p, q, k, g) ==
    Quot(p.num * q.den * g + (q.num * p.den - p.num * q.den) * k,
         p.den * q.den * g)

\* a plausible slip: interpolate() without limit=, which fills every gap
\* that follows a known cell
InterpolateNoLimit(col, lim) ==
    [i \in 1..Len(col) |->
        IF ~IsNaN(col[i]) \/ KnownBefore(col, i) = {} THEN col[i]
        ELSE LET lo == MaxOf(KnownBefore(col, i))
             IN  IF KnownAfter(col, i) = {} THEN col[lo]
                 ELSE LET hi == MinPos(KnownAfter(col, i))
                      IN  Num(Lerp(Val(col[lo]), Val(col[hi]),
                                   i - lo, hi - lo))]

\* Series.interpolate(limit=lim): linear in the row position, forward only.
\* A missing cell is filled when it is among the first lim missing cells
\* after a known one: between two known cells with the point on the line
\* through them, after the last known cell with that cell's value.  Cells
\* before the first known cell stay missing.
Interpolate(col, lim) ==
    [i \in 1..Len(col) |->
        IF ~IsNaN(col[i]) \/ KnownBefore(col, i) = {} THEN col[i]
        ELSE LET lo == MaxOf(KnownBefore(col, i))
             IN  IF i - lo > lim THEN NaN
                 ELSE IF KnownAfter(col, i) = {} THEN col[lo]
                 ELSE LET hi == MinPos(KnownAfter(col, i))
                      IN  Num(Lerp(Val(col[lo]), Val(col[hi]),
                                   i - lo, hi - lo))]

\* Series.bfill(limit=lim): a missing cell takes the value of the next
\* known cell when it is among the last lim missing cells before it
Bfill(col, lim) ==
    [i \in 1..Len(col) |->
        IF ~IsNaN(col[i]) \/ KnownAfter(col, i) = {} THEN col[i]
        ELSE LET hi == MinPos(KnownAfter(col, i))
             IN  IF hi - i > lim THEN NaN ELSE col[hi]]

\* df.loc[labels]: the rows of df with these labels, in the order of labels
Loc(df, labels) ==
    LET pos(ts) == CHOOSE j \in 1..Len(df.index) : df.index[j] = ts
    IN  [index |-> labels,
         a |-> [i \in 1..Len(labels) |-> df.a[pos(labels[i])]],
         b |-> [i \in 1..Len(labels) |-> df.b[pos(labels[i])]]]

Raised(err, done) ==
    [status |-> "raised", error |-> err, index_type |-> "none",
     index |-> <<>>, a |-> <<>>, b |-> <<>>, steps |-> done]
Returned(ity, df, done) ==
    [status |-> "returned", error |-> "none", index_type |-> ity,
     index |-> df.index, a |-> df.a, b |-> df.b, steps |-> done]

\* is_xds = isinstance(df1, xr.Dataset) | isinstance(df2, xr.Dataset)
IsXds(a, b) == a.kind = "Dataset" \/ b.kind = "Dataset"

\* a plausible slip: the index types are not compared
SameTypeUnchecked(a, b) == TRUE

\* same_type = type(df1.index) == type(df2.index)
SameType(a, b) == a.index_type = b.index_type

\* merge_dimensions(df1, df2, interp_lim): what the call returns or raises,
\* with the table operations it performed before
MergeDimensions(a, b, lim) ==
    IF IsXds(a, b) THEN Raised("GliderToolsError", <<>>)
    ELSE IF ~SameType(a, b) THEN Raised("UserWarning", <<>>)
    ELSE
      LET j == JoinOuter(a, b)
      IN  \* df.index = df1.index.astype(np.int64): the new index must
          \* have one label per row of df
          IF Len(a.index) # Len(j.index)
          THEN Raised("ValueError", <<"join">>)
          ELSE
            LET r == [j EXCEPT !.index = a.index]
                f == [r EXCEPT !.a = Bfill(Interpolate(r.a, lim), lim),
                               !.b = Bfill(Interpolate(r.b, lim), lim)]
            IN  Returned("DatetimeIndex", Loc(f, a.index),
                         <<"join", "interpolate", "bfill", "loc">>)

-----------------------------------------------------------------------------
(* distance *)

\* One element of the returned array.  The haversine distance of two points
\* is kept as the term of its arguments (in degrees): the difference in
\* longitude and latitude and the two latitudes.  The zero that numpy.r_
\* puts in front is the literal.
Literal0 ==
    [kind |-> "literal", dlon |-> 0, dlat |-> 0, lat1 |-> 0, lat2 |-> 0]
Haversine(dlon, dlat, lat1, lat2) ==
    [kind |-> "haversine", dlon |-> dlon, dlat |-> dlat, lat1 |-> lat1,
     lat2 |-> lat2]

\* the position in 1..n that the Python index r of an array of n elements
\* names; a negative index counts from the end
PyPos(r, n) == IF r >= 0 THEN r + 1 ELSE n + r + 1

DistRaised(err) == [status |-> "raised", error |-> err, value |-> <<>>]
DistReturned(v) == [status |-> "returned", error |-> "none", value |-> v]

\* numpy.diff(x)
NpDiff(x) == [i \in 1..(Len(x) - 1) |-> x[i + 1] - x[i]]

\* numpy.r_[0, distance]
WithLeadingZero(distance) == <<Literal0>> \o distance

\* distance(lon, lat, ref_idx) for flat sequences; ref is {} for None
Distance(lo, la, ref) ==
    IF Len(lo) # Len(la) THEN DistRaised("ValueError")
    ELSE IF ref = {}
    THEN \* adjacent points: i1 = slice(0, -1), i2 = slice(1, None)
         LET dlon == NpDiff(lo)
             dlat == NpDiff(la)
         IN  DistReturned(WithLeadingZero(
                 [i \in 1..(Len(la) - 1) |->
                     Haversine(dlon[i], dlat[i], la[i], la[i + 1])]))
    ELSE \* from the reference point: i1 = ref_idx, i2 = slice(0, None)
         LET r == PyPos(Val(ref), Len(lo))
         IN  IF r \notin 1..Len(lo) THEN DistRaised("IndexError")
             ELSE DistReturned(WithLeadingZero(
                 [i \in 1..Len(la) |->
                     Haversine(lo[r] - lo[i], la[r] - la[i], la[r], la[i])]))

-----------------------------------------------------------------------------
(* mask_above_depth, mask_below_depth *)

\* depth > t and depth < t for a float t: a comparison with NaN is False
FloatGt(x, t) == ~IsNaN(t) /\ x > Val(t)
FloatLt(x, t) == ~IsNaN(t) /\ x < Val(t)

\* the threshold mask_profile_depth uses for the group of dive k: the
\* number itself, or mask_depth.loc[df.index[0]] of a per-dive lookup
ThresholdOf(md, k) == IF md.kind = "scalar" THEN md.value ELSE md.lookup[k]

\* mask_profile_depth(df, mask_depth, above) for the rows of one dive
MaskProfileDepth(rows, k, md, ab) ==
    [i \in 1..Len(rows) |->
        IF ab THEN FloatGt(rows[i].depth, ThresholdOf(md, k))
        ELSE FloatLt(rows[i].depth, ThresholdOf(md, k))]

\* the rows of one dive, in their order in the dataset
RowsOfDive(rows, k) == SelectSeq(rows, LAMBDA r : r.dives = k)

RECURSIVE ConcatGroups(_, _, _, _)
\* the results of the groups keys[1], keys[2], ... one after the other
ConcatGroups(rows, keys, md, ab) ==
    IF keys = <<>> THEN <<>>
    ELSE MaskProfileDepth(RowsOfDive(rows, Head(keys)), Head(keys), md, ab)
         \o ConcatGroups(rows, Tail(keys), md, ab)

\* _mask_depth(ds, depths, above): groupby("dives") forms the groups in
\* increasing order of the dive index and apply() puts the results of the
\* groups one after the other in that order; with a single group apply()
\* returns a frame of one row, so that .values has shape (1, n)
MaskDepth(rows, md, ab) ==
    LET keys == SortedSeq({rows[i].dives : i \in 1..Len(rows)})
        vals == ConcatGroups(rows, keys, md, ab)
    IN  [shape |-> IF Len(keys) = 1 THEN <<1, Len(vals)>> ELSE <<Len(vals)>>,
         values |-> vals]

-----------------------------------------------------------------------------
(* Defaults of the variables a specification does not use *)

NoNumber == phase = <<>> /\ dive = <<>>
NoTrack  == time = <<>> /\ depth = <<>> /\ velocity = <<>>
NoMerge  == df1 = <<>> /\ df2 = <<>> /\ interp_lim = 0 /\ merged = <<>>
            /\ steps = <<>>
NoDist   == lon = <<>> /\ lat = <<>> /\ ref_idx = {} /\ d = <<>>
NoMask   == ds = <<>> /\ depths = <<>> /\ above = FALSE /\ mask = <<>>

-----------------------------------------------------------------------------
(* Specification SpecNumber: dive_phase_to_number on a phase sequence *)

PhaseLabels == {0, 1, 3, 4, 6}

InitNumber ==
    /\ pc = "start"
    /\ phase \in SeqsUpTo(PhaseLabels, MaxPhaseLen)
    /\ dive = <<>>
    /\ NoTrack /\ NoMerge /\ NoDist /\ NoMask

ApplyDivePhaseToNumber ==
    /\ pc = "start"
    /\ dive' = DivePhaseToNumber(phase)
    /\ pc' = "dive_phase_to_number"
    /\ UNCHANGED <<phase, trackVars, mergeVars, distVars, maskVars>>

NextNumber == ApplyDivePhaseToNumber

SpecNumber == InitNumber /\ [][NextNumber]_vars

NumberDone == pc = "dive_phase_to_number"

-----------------------------------------------------------------------------
(* Specification SpecTrack: calc_dive_phase and calc_dive_number on a track *)

\* depths of a track: at the default threshold and one and two centimetres
\* below it (deeper), in metres with two decimals
TrackDepths == {Quot(1500, 100), Quot(1501, 100), Quot(1502, 100)}
\* timestamps of a track, in seconds: equal, increasing and decreasing ones
TrackTimes == {0, 1, 2}

InitTrack ==
    /\ pc = "start"
    /\ \E n \in 1..MaxTrackLen :
          /\ time \in [1..n -> TrackTimes]
          /\ depth \in [1..n -> TrackDepths]
    /\ velocity = <<>>
    /\ NoNumber /\ NoMerge /\ NoDist /\ NoMask

ApplyCalcDivePhase ==
    /\ pc = "start"
    /\ phase' \in CalcDivePhase(time, depth, DiveDepthThreshold)
    /\ velocity' = CalcGliderVertVelocity(time, depth)
    /\ pc' = "calc_dive_phase"
    /\ UNCHANGED <<dive, time, depth, mergeVars, distVars, maskVars>>

ApplyCalcDiveNumber ==
    /\ pc = "start"
    /\ phase' \in CalcDivePhase(time, depth, DiveDepthThreshold)
    /\ dive' = DivePhaseToNumber(phase')
    /\ velocity' = CalcGliderVertVelocity(time, depth)
    /\ pc' = "calc_dive_number"
    /\ UNCHANGED <<time, depth, mergeVars, distVars, maskVars>>

NextTrack == ApplyCalcDivePhase \/ ApplyCalcDiveNumber

SpecTrack == InitTrack /\ [][NextTrack]_vars

PhaseDone == pc \in {"calc_dive_phase", "calc_dive_number"}

-----------------------------------------------------------------------------
(* Specification SpecMerge: merge_dimensions on two tables *)

IndexTypes == {"DatetimeIndex", "Int64Index"}
Timestamps == 1..MaxTime

\* the first stream: a track sampled at one or more of the timestamps,
\* every cell known
FirstFrames ==
    {DataFrame(ity, SortedSeq(S), [i \in 1..Cardinality(S) |-> Num(Quot(0, 1))]) :
        ity \in IndexTypes, S \in (SUBSET Timestamps) \ {{}}}

\* the second stream: at each timestamp it has no row, a row whose cell is
\* missing, or a row holding the sample ts * ts
SecondFrames ==
    {DataFrame(ity, SortedSeq(S),
               [i \in 1..Cardinality(S) |->
                   IF SortedSeq(S)[i] \in K
                   THEN Num(Quot(SortedSeq(S)[i] * SortedSeq(S)[i], 1))
                   ELSE NaN]) :
        ity \in IndexTypes,
        S \in SUBSET Timestamps,
        K \in SUBSET Timestamps}

InitMerge ==
    /\ pc = "start"
    /\ df1 \in FirstFrames \cup {Dataset}
    /\ df2 \in SecondFrames \cup {Dataset}
    /\ interp_lim \in 1..MaxLim
    /\ merged = <<>>
    /\ steps = <<>>
    /\ NoNumber /\ NoTrack /\ NoDist /\ NoMask

ApplyMergeDimensions ==
    /\ pc = "start"
    /\ LET r == MergeDimensions(df1, df2, interp_lim)
       IN  /\ merged' = r
           /\ steps' = r.steps
    /\ pc' = "merge_dimensions"
    /\ UNCHANGED <<df1, df2, interp_lim, numberVars, trackVars, distVars,
                   maskVars>>

NextMerge == ApplyMergeDimensions

SpecMerge == InitMerge /\ [][NextMerge]_vars

MergeDone == pc = "merge_dimensions"

-----------------------------------------------------------------------------
(* Specification SpecDistance: distance on a lon/lat track *)

Degrees == {0, 90}

InitDistance ==
    /\ pc = "start"
    /\ lon \in SeqsUpTo(Degrees, MaxPts)
    /\ lat \in SeqsUpTo(Degrees, MaxPts)
    /\ ref_idx \in {NaN} \cup {Num(r) : r \in (-MaxPts)..(MaxPts - 1)}
    /\ d = <<>>
    /\ NoNumber /\ NoTrack /\ NoMerge /\ NoMask

ApplyDistance ==
    /\ pc = "start"
    /\ d' = Distance(lon, lat, ref_idx)
    /\ pc' = "distance"
    /\ UNCHANGED <<lon, lat, ref_idx, numberVars, trackVars, mergeVars,
                   maskVars>>

NextDistance == ApplyDistance

SpecDistance == InitDistance /\ [][NextDistance]_vars

DistanceDone == pc = "distance"

-----------------------------------------------------------------------------
(* Specification SpecMask: mask_above_depth and mask_below_depth *)

DiveKeys == {1, 2}
RowDepths == {10, 20, 30}
Thresholds == {NaN, Num(20)}

Scalar(t) == [kind |-> "scalar", value |-> t, lookup |-> <<>>]
PerDive(f) == [kind |-> "lookup", value |-> NaN, lookup |-> f]

InitMask ==
    /\ pc = "start"
    /\ \E n \in 1..MaxRows :
          ds \in [1..n -> [dives : DiveKeys, depth : RowDepths]]
    /\ depths \in {Scalar(t) : t \in Thresholds}
                  \cup {PerDive(f) : f \in [DiveKeys -> Thresholds]}
    /\ above \in BOOLEAN
    /\ mask = <<>>
    /\ NoNumber /\ NoTrack /\ NoMerge /\ NoDist

ApplyMaskAboveDepth ==
    /\ pc = "start"
    /\ above = TRUE
    /\ mask' = MaskDepth(ds, depths, TRUE)
    /\ pc' = "mask_above_depth"
    /\ UNCHANGED <<ds, depths, above, numberVars, trackVars, mergeVars,
                   distVars>>

ApplyMaskBelowDepth ==
    /\ pc = "start"
    /\ above = FALSE
    /\ mask' = MaskDepth(ds, depths, FALSE)
    /\ pc' = "mask_below_depth"
    /\ UNCHANGED <<ds, depths, above, numberVars, trackVars, mergeVars,
                   distVars>>

NextMask == ApplyMaskAboveDepth \/ ApplyMaskBelowDepth

SpecMask == InitMask /\ [][NextMask]_vars

MaskDone == pc \in {"mask_above_depth", "mask_below_depth"}

-----------------------------------------------------------------------------
(* Claims about dive_phase_to_number, checked under SpecNumber *)

\* sample i starts a run of label: it carries the label and its predecessor
\* does not (the first sample has no predecessor and is never a run start)
IsRunStart(p, i, label) == i > 1 /\ p[i] = label /\ p[i-1] # label
RunStartCount(p, i, label) ==
    Cardinality({j \in 1..i : IsRunStart(p, j, label)})

\* C2: the output has the length of the input, never decreases from one
\* sample to the next, and every value is a non-negative n.0 or n.5.
C2_SameLengthMonotoneHalves ==
    NumberDone =>
        /\ Len(dive) = Len(phase)
        /\ \A i \in 1..Len(dive) :
              /\ dive[i].num >= 0 /\ dive[i].den > 0
              /\ IsDotZero(dive[i]) \/ IsDotFive(dive[i])
        /\ \A i \in 2..Len(dive) : QLeq(dive[i-1], dive[i])

\* C2's case: a sequence that starts in label 1 or 4, holds a single-sample
\* spike of label 1 or 4, and whose index has risen by its end.
C2_Witness ==
    /\ NumberDone
    /\ Len(phase) >= 3
    /\ phase[1] \in {1, 4}
    /\ \E i \in 2..(Len(phase) - 1) :
          /\ phase[i] \in {1, 4}
          /\ phase[i-1] # phase[i] /\ phase[i+1] # phase[i]
    /\ ~QLeq(dive[Len(dive)], dive[1])

\* C10: the dive index at sample i is (U_i + D_i) / 2, U_i and D_i the
\* numbers of run starts of label 4 and of label 1 at positions 2..i; it
\* rises by exactly one half at a run start of label 1 or 4, is unchanged
\* at every other sample, and is 0 at the first sample.
C10_IndexIsHalfTheRunStarts ==
    NumberDone =>
        /\ \A i \in 1..Len(phase) :
              dive[i] = Quot(RunStartCount(phase, i, 4)
                             + RunStartCount(phase, i, 1), 2)
        /\ Len(phase) >= 1 => dive[1] = Quot(0, 2)
        /\ \A i \in 2..Len(phase) :
              dive[i].num - dive[i-1].num =
                  IF IsRunStart(phase, i, 1) \/ IsRunStart(phase, i, 4)
                  THEN 1 ELSE 0

\* C10's case: a single-sample spike of one label inside a run of the
\* other, so that both counters have advanced.
C10_Witness ==
    /\ NumberDone
    /\ \E i \in 2..(Len(phase) - 1) :
          /\ phase[i] = 1 /\ phase[i-1] = 4 /\ phase[i+1] = 4
          /\ IsRunStart(phase, i - 1, 4)
          /\ dive[i+1].num = dive[i-1].num + 2

-----------------------------------------------------------------------------
(* Claims about calc_dive_phase, checked under SpecTrack *)

\* none of the four threshold rules selects sample i
NoRuleAssigns(i) ==
    /\ ~GtHalf(velocity[i])
    /\ ~LtMinusHalf(velocity[i])
    /\ ~(Deeper(depth[i], DiveDepthThreshold)
         /\ GeMinusHalf(velocity[i]) /\ LeHalf(velocity[i]))
    /\ ~NotDeeper(depth[i], DiveDepthThreshold)

\* C6: calc_dive_phase returns only labels from {0, 1, 3, 4, 6}, and every
\* sample that none of rules 1-4 assigns receives label 6.
C6_OnlyLabelsAndUnassignedIsSix ==
    PhaseDone =>
        \A i \in 1..Len(phase) :
            /\ phase[i] \in PhaseLabels
            /\ NoRuleAssigns(i) => phase[i] = 6

\* C7: a sample whose velocity is defined is labelled 0 when its depth is
\* at most the threshold, whatever the velocity; deeper, it is labelled 1
\* when velocity > 0.5, 4 when velocity < -0.5 and 3 in between, both
\* bounds included.
C7_LabelOfDefinedVelocity ==
    PhaseDone =>
        \A i \in 1..Len(phase) :
            velocity[i].kind # "nan" =>
                phase[i] =
                    IF depth[i].num <= DiveDepthThreshold * depth[i].den
                    THEN 0
                    ELSE IF GtHalf(velocity[i]) THEN 1
                    ELSE IF LtMinusHalf(velocity[i]) THEN 4
                    ELSE 3

\* C7's case: a shallow sample rising faster than 0.5 cm/s is labelled 0,
\* and a deep sample sinking at exactly 0.5 cm/s is labelled 3.
C7_Witness ==
    /\ PhaseDone
    /\ \E i \in 1..Len(phase) :
          /\ NotDeeper(depth[i], DiveDepthThreshold)
          /\ LtMinusHalf(velocity[i])
          /\ phase[i] = 0
    /\ \E j \in 1..Len(phase) :
          /\ Deeper(depth[j], DiveDepthThreshold)
          /\ velocity[j] = Fin(1, 2)
          /\ phase[j] = 3

-----------------------------------------------------------------------------
(* Claim about calc_dive_number, checked under SpecTrack *)

\* C1: every sample labelled 1 (descent) receives a dive index n.0 and
\* every sample labelled 4 (ascent) receives a dive index n.5, for every
\* phase sequence given to dive_phase_to_number and so for every track
\* given to calc_dive_number.
C1_DescentDotZeroAscentDotFive ==
    pc \in {"dive_phase_to_number", "calc_dive_number"} =>
        \A i \in 1..Len(phase) :
            /\ phase[i] = 1 => IsDotZero(dive[i])
            /\ phase[i] = 4 => IsDotFive(dive[i])

-----------------------------------------------------------------------------
(* Claims about merge_dimensions, checked under SpecMerge *)

BothTables == df1.kind = "DataFrame" /\ df2.kind = "DataFrame"

\* C3: for two tables whose indices have the same type, also when df2 has
\* timestamps that df1 has not, merge_dimensions returns a table whose index
\* is exactly the index of df1: same length, same timestamps, same order.
C3_ReturnsIndexOfFirst ==
    (MergeDone /\ BothTables /\ df1.index_type = df2.index_type) =>
        /\ merged.status = "returned"
        /\ merged.index = df1.index
        /\ Len(merged.a) = Len(df1.index)
        /\ Len(merged.b) = Len(df1.index)

\* the column of df2 on the rows of the returned table, before any filling
ColumnOnGrid == [i \in 1..Len(df1.index) |-> CellAt(df2, df1.index[i])]

\* lo and hi are known cells of the column and every cell between them is
\* missing: an interior gap of hi - lo - 1 rows
IsGap(col, lo, hi) ==
    /\ lo \in 1..Len(col) /\ hi \in 1..Len(col) /\ lo + 1 < hi
    /\ ~IsNaN(col[lo]) /\ ~IsNaN(col[hi])
    /\ \A k \in (lo + 1)..(hi - 1) : IsNaN(col[k])

\* C4 as claimed: a run of more than interp_lim missing values between two
\* known values is not completely filled in the returned table.
C4_GapBeyondLimitKeepsNull ==
    (MergeDone /\ merged.status = "returned") =>
        \A lo, hi \in 1..Len(df1.index) :
            (IsGap(ColumnOnGrid, lo, hi) /\ hi - lo - 1 > interp_lim) =>
                \E k \in (lo + 1)..(hi - 1) : IsNaN(merged.b[k])

\* C4 as amended: in the returned table a cell of an interior gap is null
\* exactly when more than interp_lim missing cells separate it from the
\* known cell on either side: the first interp_lim cells are interpolated,
\* the last interp_lim are back-filled, so that only a gap of more than
\* 2 * interp_lim rows keeps nulls, the ones in its middle.
C4_GapBeyondTwiceLimitKeepsNull ==
    (MergeDone /\ merged.status = "returned") =>
        \A lo, hi \in 1..Len(df1.index) :
            IsGap(ColumnOnGrid, lo, hi) =>
                \A k \in (lo + 1)..(hi - 1) :
                    IsNaN(merged.b[k]) <=>
                        (k - lo > interp_lim /\ hi - k > interp_lim)

\* C4's case: a gap of more than 2 * interp_lim rows, interpolated at its
\* start, back-filled at its end and null in between.
C4_Witness ==
    /\ MergeDone /\ merged.status = "returned"
    /\ \E lo, hi \in 1..Len(df1.index) :
          /\ IsGap(ColumnOnGrid, lo, hi)
          /\ hi - lo - 1 > 2 * interp_lim
          /\ ~IsNaN(merged.b[lo + 1])
          /\ merged.b[hi - 1] = ColumnOnGrid[hi]
          /\ IsNaN(merged.b[lo + interp_lim + 1])

\* C9: when either argument is a dataset or the two indices differ in type,
\* merge_dimensions raises before any join, interpolation or fill, returns
\* no partial result and leaves both arguments as they were.
C9_RaisesBeforeAnyStep ==
    [][(pc = "start" /\ (df1.kind = "Dataset" \/ df2.kind = "Dataset"
                         \/ df1.index_type # df2.index_type)) =>
          /\ merged'.status = "raised"
          /\ merged'.error \in {"GliderToolsError", "UserWarning"}
          /\ steps' = <<>>
          /\ merged'.index = <<>> /\ merged'.a = <<>> /\ merged'.b = <<>>
          /\ df1' = df1 /\ df2' = df2]_vars

\* C9's case: two non-empty tables whose indices differ in type and whose
\* rows would otherwise merge; the call has raised.
C9_Witness ==
    /\ MergeDone /\ BothTables
    /\ df1.index_type # df2.index_type
    /\ df1.index # <<>> /\ df1.index = df2.index
    /\ merged.error = "UserWarning"

-----------------------------------------------------------------------------
(* Claim about distance, checked under SpecDistance *)

\* C5: for equal-length sequences of n >= 1 points, distance returns n
\* elements, the first of them 0, without a reference index and with a
\* valid one; for a single point it returns [0] in both modes.
C5_LengthOfInputAndLeadingZero ==
    (/\ DistanceDone
     /\ Len(lon) = Len(lat) /\ Len(lon) >= 1
     /\ ref_idx # {} => PyPos(Val(ref_idx), Len(lon)) \in 1..Len(lon)) =>
        /\ d.status = "returned"
        /\ Len(d.value) = Len(lon)
        /\ d.value[1] = Literal0
        /\ Len(lon) = 1 => d.value = <<Literal0>>

-----------------------------------------------------------------------------
(* Claim about the depth masks, checked under SpecMask *)

\* C8: the mask has one boolean per row of the dataset, in the order of its
\* rows, also when the dive index is not sorted: depth > T_k (above) or
\* depth < T_k (below) for a row of dive k, T_k the scalar or the per-dive
\* lookup value; a not-a-number T_k gives every row of dive k the same
\* value.
C8_MaskAlignedToRows ==
    MaskDone =>
        /\ Len(mask.values) = Len(ds)
        /\ \A i \in 1..Len(ds) :
              LET t == IF depths.kind = "scalar" THEN depths.value
                       ELSE depths.lookup[ds[i].dives]
              IN  mask.values[i] =
                      IF t = {} THEN FALSE
                      ELSE IF above THEN ds[i].depth > Val(t)
                      ELSE ds[i].depth < Val(t)

=============================================================================
